---- MODULE Spec2Model ----
(***************************************************************************)
(* Model of the school / district search of react-interview-exercise:      *)
(*   - the query executor of src/utils/maps.ts (searchSchoolDistricts,     *)
(*     searchSchools, the two normalizers and the school deduplication);   *)
(*   - the debounced search controller of src/components/Home.tsx (the     *)
(*     two fetch effects, the debounce hook, handleDistrictChange and the  *)
(*     input / click handlers).                                            *)
(* Texts are sequences of one-character strings so that trim() is          *)
(* computed; every other attribute value is a string.                      *)
(***************************************************************************)
EXTENDS Integers, Sequences, FiniteSets, TLC

VARIABLES
    call,                    \* executor: the last call of a search function and its outcome
    districtQuery,           \* Home.tsx:36
    schoolQuery,             \* Home.tsx:37
    debouncedDistrictQuery,  \* Home.tsx:40
    debouncedSchoolQuery,    \* Home.tsx:41
    districtTimer,           \* pending timeouts of useDebounce(districtQuery): the values they hold
    schoolTimer,             \* pending timeouts of useDebounce(schoolQuery): the values they hold
    districts,               \* Home.tsx:44
    schools,                 \* Home.tsx:45
    selectedDistrict,        \* Home.tsx:48
    selectedSchool,          \* Home.tsx:49
    loadingDistricts,        \* Home.tsx:52
    loadingSchools,          \* Home.tsx:53
    districtCache,           \* Home.tsx:56
    schoolCache,             \* Home.tsx:57
    districtReqs,            \* district requests whose promise has not settled
    schoolReqs,              \* school requests whose promise has not settled
    mounted,                 \* the component is mounted
    handled,                 \* number of events the session has handled
    ev                       \* observation of the last step (history variable)

vars == << call, districtQuery, schoolQuery, debouncedDistrictQuery,
           debouncedSchoolQuery, districtTimer, schoolTimer, districts, schools,
           selectedDistrict, selectedSchool, loadingDistricts, loadingSchools,
           districtCache, schoolCache, districtReqs, schoolReqs, mounted, handled,
           ev >>

ctlVars == << districtQuery, schoolQuery, debouncedDistrictQuery,
              debouncedSchoolQuery, districtTimer, schoolTimer, districts, schools,
              selectedDistrict, selectedSchool, loadingDistricts, loadingSchools,
              districtCache, schoolCache, districtReqs, schoolReqs, mounted, handled,
           ev >>

-----------------------------------------------------------------------------
(* Bounds *)

\* longest feature list one upstream source answers with in an executor call
MaxFeatures == 2

\* number of events (input, timer, selection, settled request) of one session
MaxEvents == 10

-----------------------------------------------------------------------------
(* JavaScript values *)

\* the value of an absent property
Undef == "<undefined>"

\* null (no selection)
Null == [null |-> TRUE]

\* JavaScript truthiness of a string-or-undefined value
Truthy(v) == v # Undef /\ v # ""

\* a.k : property access on an attribute object
Get(a, k) == IF k \in DOMAIN a THEN a[k] ELSE Undef

\* x || y
Or(x, y) == IF Truthy(x) THEN x ELSE y

\* String.prototype.trim on a sequence of characters
RECURSIVE TrimLeft(_)
TrimLeft(t) == IF t # << >> /\ Head(t) = " " THEN TrimLeft(Tail(t)) ELSE t

RECURSIVE TrimRight(_)
TrimRight(t) ==
    IF t # << >> /\ t[Len(t)] = " " THEN TrimRight(SubSeq(t, 1, Len(t) - 1)) ELSE t

Trim(t) == TrimRight(TrimLeft(t))

-----------------------------------------------------------------------------
(* Normalizers, maps.ts:47-93 *)

normalizeSchoolAttributes(a) ==
    [ NAME     |-> Or(Get(a, "NAME"), Or(Get(a, "SCH_NAME"), Or(Get(a, "SCHOOL_NAME"),
                   Or(Get(a, "SchoolName"), Or(Get(a, "NAME_"), ""))))),
      CITY     |-> Or(Get(a, "CITY"), Or(Get(a, "MAIL_CITY"), Or(Get(a, "LCITY"),
                   Or(Get(a, "TOWN"), "")))),
      NCESSCH  |-> Or(Get(a, "NCESSCH"), Or(Get(a, "SCHID"), Or(Get(a, "NCES_ID"),
                   Or(Get(a, "NCES"), "")))),
      LEAID    |-> Or(Get(a, "LEAID"), Or(Get(a, "LEA_ID"), Or(Get(a, "LEA"), ""))),
      OBJECTID |-> Or(Get(a, "OBJECTID"), Get(a, "OBJECT_ID")) ]
    @@ ("STATE" :> Or(Get(a, "STATE"), Or(Get(a, "ST"), Or(Get(a, "MAIL_STATE"),
                   Or(Get(a, "LSTATE"), "")))))

normalizeDistrictAttributes(a) ==
    [ OBJECTID |-> Or(Get(a, "OBJECTID"), Get(a, "OBJECT_ID")),
      LEAID    |-> Or(Get(a, "LEAID"), Or(Get(a, "LEA_ID"), Or(Get(a, "LEA"), ""))),
      NAME     |-> Or(Get(a, "DISTRICT"), Or(Get(a, "LEA_NAME"), Or(Get(a, "LEANM"),
                   "District " \o Or(Get(a, "LEAID"), "Unknown")))),
      LCITY    |-> Or(Get(a, "LCITY"), Or(Get(a, "CITY"), "")),
      LSTATE   |-> Or(Get(a, "LSTATE"), Or(Get(a, "STATE"), Or(Get(a, "ST"), ""))),
      ST       |-> Or(Get(a, "LSTATE"), Or(Get(a, "ST"), Or(Get(a, "STATE"),
                   Or(Get(a, "STATE_CODE"), "")))) ]

\* f.attributes || f
FeatureAttrs(f) == IF "attributes" \in DOMAIN f THEN f.attributes ELSE f

-----------------------------------------------------------------------------
(* Upstream answers *)

\* kinds of answer of one fetch:
\*   ok         success status, JSON envelope with a features array
\*   nofeatures success status, JSON envelope without a features array
\*   nonok      non-success status
\*   neterr     fetch rejects with a network error
\*   abort      fetch rejects with AbortError
\*   badjson    success status, json() rejects with SyntaxError
\*   abortbody  success status, json() rejects with AbortError
Answer(kind, features) == [kind |-> kind, features |-> features]

ZeroFeatures == Answer("ok", << >>)

\* the fetch without its .catch: a rejection escapes into the try block
FetchNoCatch(ans) ==
    [ exc |-> IF ans.kind = "neterr" THEN "TypeError"
              ELSE IF ans.kind = "abort" THEN "AbortError" ELSE "",
      ok  |-> ans.kind \in {"ok", "nofeatures", "badjson", "abortbody"} ]

\* fetch(url, { signal }).catch(() => ({ ok: false })): what Promise.all gets
\* from one source, the ok flag of the response or the rejection that escapes
FetchCatch(ans) ==
    [ exc |-> "",
      ok  |-> ans.kind \in {"ok", "nofeatures", "badjson", "abortbody"} ]

\* the fetch promise itself rejected
FetchRejected(ans) == ans.kind \in {"neterr", "abort"}

\* res.ok ? await res.json() : { features: [] }, then
\* Array.isArray(json.features) ? json.features : []
\* either the feature list or the exception json() throws
Json(res, ans) ==
    IF ~res.ok THEN [exc |-> "", features |-> << >>]
    ELSE IF ans.kind = "badjson" THEN [exc |-> "SyntaxError", features |-> << >>]
    ELSE IF ans.kind = "abortbody" THEN [exc |-> "AbortError", features |-> << >>]
    ELSE IF ans.kind = "nofeatures" THEN [exc |-> "", features |-> << >>]
    ELSE [exc |-> "", features |-> ans.features]

\* both sources awaited in the order of the code: the combined feature list,
\* or the first exception thrown inside the try block
Combined(priv, pub) ==
    LET privateRes  == FetchCatch(priv)
        publicRes   == FetchCatch(pub)
        privateJson == Json(privateRes, priv)
        publicJson  == Json(publicRes, pub)
    IN  IF privateRes.exc # "" THEN [exc |-> privateRes.exc, features |-> << >>]
        ELSE IF publicRes.exc # "" THEN [exc |-> publicRes.exc, features |-> << >>]
        ELSE IF privateJson.exc # "" THEN [exc |-> privateJson.exc, features |-> << >>]
        ELSE IF publicJson.exc # "" THEN [exc |-> publicJson.exc, features |-> << >>]
        ELSE [exc |-> "", features |-> privateJson.features \o publicJson.features]

-----------------------------------------------------------------------------
(* searchSchools, maps.ts:155-211 *)

\* where clause: the name filter ("1=1" when absent) and the district filter
AllClause == <<"1", "=", "1">>

\* the where clause with the name filter applied to any non-empty text
SchoolWhereAnyText(name, districtLEAID) ==
    LET nameQuery == Trim(name) IN
    [ name |-> IF nameQuery # << >> THEN nameQuery ELSE AllClause,
      lea  |-> IF Truthy(districtLEAID) THEN districtLEAID ELSE "" ]

SchoolWhere(name, districtLEAID) ==
    LET nameQuery == Trim(name) IN
    [ name |-> IF nameQuery # << >> /\ Len(nameQuery) >= 2 THEN nameQuery ELSE AllClause,
      lea  |-> IF Truthy(districtLEAID) THEN districtLEAID ELSE "" ]

\* self.findIndex(test), 1-based, given the positions that pass the test;
\* Len(self) + 1 when none does
FindIndex(self, hits) ==
    IF hits = {} THEN Len(self) + 1
    ELSE CHOOSE i \in hits : \A j \in hits : i <= j

\* the filter callback without the name / city / state fallback
KeepSchoolNoFallback(self, index) ==
    LET school == self[index]
        sameId == {i \in 1..Len(self) : self[i].NCESSCH = school.NCESSCH}
    IN  IF Truthy(school.NCESSCH) THEN FindIndex(self, sameId) = index ELSE TRUE

\* the filter callback of maps.ts:194-203
KeepSchool(self, index) ==
    LET school == self[index]
        sameId  == {i \in 1..Len(self) : self[i].NCESSCH = school.NCESSCH}
        sameNCS == {i \in 1..Len(self) :
                        /\ self[i].NAME = school.NAME
                        /\ self[i].CITY = school.CITY
                        /\ self[i]["STATE"] = school["STATE"]}
    IN  IF Truthy(school.NCESSCH)
        THEN FindIndex(self, sameId) = index
        ELSE FindIndex(self, sameNCS) = index

RECURSIVE FilterFrom(_, _)
FilterFrom(self, index) ==
    IF index > Len(self) THEN << >>
    ELSE (IF KeepSchool(self, index) THEN <<self[index]>> ELSE << >>)
         \o FilterFrom(self, index + 1)

DedupSchools(normalized) == FilterFrom(normalized, 1)

NormalizeAll(combined) ==
    [i \in 1..Len(combined) |-> normalizeSchoolAttributes(FeatureAttrs(combined[i]))]

SchoolRequests(name, districtLEAID) ==
    << [src |-> "private", where |-> SchoolWhere(name, districtLEAID), cap |-> 100],
       [src |-> "public",  where |-> SchoolWhere(name, districtLEAID), cap |-> 100] >>

\* the try block: the value it returns or the exception it throws
SchoolsTry(name, districtLEAID, priv, pub) ==
    LET combined == Combined(priv, pub) IN
    IF combined.exc # "" THEN [exc |-> combined.exc, value |-> << >>]
    ELSE [exc |-> "", value |-> DedupSchools(NormalizeAll(combined.features))]

\* the whole call: what it returns, whether its promise rejects, the requests
\* it sent and the console.error lines it wrote
searchSchools(name, districtLEAID, priv, pub) ==
    LET t == SchoolsTry(name, districtLEAID, priv, pub) IN
    [ result   |-> IF t.exc = "" THEN t.value ELSE << >>,
      raised   |-> FALSE,
      requests |-> SchoolRequests(name, districtLEAID),
      logs     |-> IF t.exc # "" /\ t.exc # "AbortError"
                   THEN <<"School search error:">> ELSE << >> ]

-----------------------------------------------------------------------------
(* searchSchoolDistricts, maps.ts:95-153 *)

DistrictWhere(name) == [name |-> Trim(name), lea |-> ""]

DistrictRequests(name) ==
    << [src |-> "private", where |-> DistrictWhere(name), cap |-> 500],
       [src |-> "public",  where |-> DistrictWhere(name), cap |-> 500] >>

\* attrs.LEAID || attrs.LEA_ID || attrs.LEA, maps.ts:133
RawLeaId(attrs) == Or(Get(attrs, "LEAID"), Or(Get(attrs, "LEA_ID"), Get(attrs, "LEA")))

\* the forEach of maps.ts:131-139: the values of districtMap in insertion order
RECURSIVE DistrictMapFrom(_, _, _)
DistrictMapFrom(allSchools, index, seen) ==
    IF index > Len(allSchools) THEN << >>
    ELSE LET attrs == FeatureAttrs(allSchools[index])
             leaId == RawLeaId(attrs)
         IN  IF Truthy(leaId) /\ leaId \notin seen
             THEN <<normalizeDistrictAttributes(attrs)>>
                  \o DistrictMapFrom(allSchools, index + 1, seen \cup {leaId})
             ELSE DistrictMapFrom(allSchools, index + 1, seen)

\* collation order of the district names that occur (localeCompare)
NameOrder == << "", "Alpine", "District L1", "District L2", "District Unknown", "Ogden" >>

NameRank(n) == CHOOSE i \in 1..Len(NameOrder) : NameOrder[i] = n

\* the comparator with its arguments exchanged
NameGeq(a, b) == NameRank(Or(a.NAME, "")) >= NameRank(Or(b.NAME, ""))

\* (a.NAME || '').localeCompare(b.NAME || '') <= 0
NameLeq(a, b) == NameRank(Or(a.NAME, "")) <= NameRank(Or(b.NAME, ""))

\* Array.prototype.sort with that comparator (stable)
RECURSIVE InsertSorted(_, _)
InsertSorted(sorted, d) ==
    IF sorted = << >> THEN <<d>>
    ELSE IF NameLeq(Head(sorted), d) THEN <<Head(sorted)>> \o InsertSorted(Tail(sorted), d)
    ELSE <<d>> \o sorted

RECURSIVE SortByName(_)
SortByName(list) ==
    IF list = << >> THEN << >>
    ELSE InsertSorted(SortByName(SubSeq(list, 1, Len(list) - 1)), list[Len(list)])

DistrictsTry(priv, pub) ==
    LET allSchools == Combined(priv, pub) IN
    IF allSchools.exc # "" THEN [exc |-> allSchools.exc, value |-> << >>]
    ELSE [exc |-> "", value |-> SortByName(DistrictMapFrom(allSchools.features, 1, {}))]

\* console.error of the two fetch .catch handlers, maps.ts:111-118
FetchLogs(priv, pub) ==
    (IF FetchRejected(priv) THEN <<"Private fetch error:">> ELSE << >>)
    \o (IF FetchRejected(pub) THEN <<"Public fetch error:">> ELSE << >>)

\* the length test on the untrimmed text
TooShortUntrimmed(name) == name = << >> \/ Len(name) < 2

\* !name || name.trim().length < 2, maps.ts:99
TooShort(name) == name = << >> \/ Len(Trim(name)) < 2

searchSchoolDistricts(name, priv, pub) ==
    IF TooShort(name)
    THEN [result |-> << >>, raised |-> FALSE, requests |-> << >>, logs |-> << >>]
    ELSE LET t == DistrictsTry(priv, pub) IN
         [ result   |-> IF t.exc = "" THEN t.value ELSE << >>,
           raised   |-> FALSE,
           requests |-> DistrictRequests(name),
           logs     |-> FetchLogs(priv, pub)
                        \o (IF t.exc # "" /\ t.exc # "AbortError"
                            THEN <<"District search error:">> ELSE << >>) ]

-----------------------------------------------------------------------------
(* Upstream data of the executor calls *)

\* raw features of the private catalog
PF1 == [attributes |-> [NCESSCH |-> "111", NAME |-> "Lincoln", CITY |-> "X",
                        OBJECTID |-> "1", LEAID |-> "L1"] @@ ("STATE" :> "S")]
PF2 == [attributes |-> [NAME |-> "Lincoln", CITY |-> "X",
                        LEAID |-> "L2", DISTRICT |-> "Alpine"] @@ ("STATE" :> "S")]
PF3 == [attributes |-> [NAME |-> "Lincoln", CITY |-> "X"] @@ ("STATE" :> "T")]

\* raw features of the public catalog (other field names, one flat feature,
\* one feature that lists identifier 111 under another name and city)
QF1 == [attributes |-> [SCHID |-> "111", SCH_NAME |-> "Lincoln", MAIL_CITY |-> "X",
                        ST |-> "S", OBJECT_ID |-> "2", LEA_ID |-> "L1",
                        LEA_NAME |-> "Ogden"]]
QF2 == [NAME |-> "Grant", CITY |-> "Y", LEA_ID |-> "L2"] @@ ("STATE" :> "S")
QF3 == [attributes |-> [NCESSCH |-> "111", NAME |-> "Grant", CITY |-> "Y",
                        OBJECTID |-> "3"] @@ ("STATE" :> "S")]

PrivateFeatures == {PF1, PF2, PF3}
PublicFeatures  == {QF1, QF2, QF3}

\* the sequences over S of length at most n
RECURSIVE SeqsUpTo(_, _)
SeqsUpTo(S, n) ==
    IF n = 0 THEN {<< >>}
    ELSE LET shorter == SeqsUpTo(S, n - 1)
         IN  shorter \cup {Append(t, x) : t \in shorter, x \in S}

FailureKinds == {"nofeatures", "nonok", "neterr", "abort", "badjson", "abortbody"}

Answers(features) ==
    {Answer("ok", fs) : fs \in SeqsUpTo(features, MaxFeatures)}
    \cup {Answer(k, << >>) : k \in FailureKinds}

\* an abort reaches both fetches: a response whose body was read is not
\* combined with an aborted one
Unread(ans) == ans.kind \in {"abort", "abortbody"}
BodyRead(ans) == ans.kind \in {"ok", "nofeatures", "badjson"}
ValidPair(priv, pub) ==
    /\ Unread(pub) => ~BodyRead(priv)
    /\ priv.kind = "abort" => ~BodyRead(pub)

ExecNames == { << >>, <<"a", " ">>, <<"a", "b">>, <<" ", "a", "b", " ">> }
ExecLeas  == { Undef, "", "L1" }

IdleCall == [fn |-> "none", name |-> << >>, lea |-> Undef,
             priv |-> ZeroFeatures, pub |-> ZeroFeatures,
             out |-> [result |-> << >>, raised |-> FALSE, requests |-> << >>,
                      logs |-> << >>]]

-----------------------------------------------------------------------------
(* Controller: the session state of Home.tsx as one record *)

\* the texts the user types
DistrictTexts == { << >>, <<"a", "b">>, <<"c", "d">> }
SchoolTexts   == { << >>, <<"a", "b">>, <<"c", "d", " ">> }

\* what the two sources answer to a district request of the controller
DistrictAnswers ==
    { <<Answer("ok", <<PF1>>), Answer("ok", <<QF2>>)>>,
      <<Answer("ok", <<PF2>>), Answer("ok", << >>)>>,
      <<Answer("neterr", << >>), Answer("ok", << >>)>> }

\* what the two sources answer to a school request of the controller
SchoolAnswers ==
    { <<Answer("ok", <<PF1>>), Answer("ok", << >>)>>,
      <<Answer("ok", <<PF2>>), Answer("ok", <<QF2>>)>>,
      <<Answer("neterr", << >>), Answer("ok", <<QF2>>)>>,
      <<Answer("ok", << >>), Answer("nonok", << >>)>> }

\* what the fetches of an aborted request settle with
AbortedPairs == { <<Answer("abort", << >>), Answer("abort", << >>)>>,
                  <<Answer("abortbody", << >>), Answer("abort", << >>)>> }

Session ==
    [ districtQuery |-> districtQuery, schoolQuery |-> schoolQuery,
      debouncedDistrictQuery |-> debouncedDistrictQuery,
      debouncedSchoolQuery |-> debouncedSchoolQuery,
      districtTimer |-> districtTimer, schoolTimer |-> schoolTimer,
      districts |-> districts, schools |-> schools,
      selectedDistrict |-> selectedDistrict, selectedSchool |-> selectedSchool,
      loadingDistricts |-> loadingDistricts, loadingSchools |-> loadingSchools,
      districtCache |-> districtCache, schoolCache |-> schoolCache,
      districtReqs |-> districtReqs, schoolReqs |-> schoolReqs,
      mounted |-> mounted ]

\* cache[key] = list
Put(cache, key, list) ==
    [k \in DOMAIN cache \cup {key} |-> IF k = key THEN list ELSE cache[k]]

\* a deletion that empties the cache
DeleteAll(cache, key) == << >>

\* delete cache[key]
Delete(cache, key) == [k \in DOMAIN cache \ {key} |-> cache[k]]

\* selectedDistrict?.LEAID
LeaOf(d) == IF d = Null THEN Undef ELSE d.LEAID

\* `${selectedDistrict?.LEAID || "all"}-${q}`, Home.tsx:103 and :152
CacheKey(lea, q) == <<Or(lea, "all"), q>>

\* a minimum length of 3
BelowMinOfThree(q) == q = << >> \/ Len(q) < 3

\* !q || q.length < 2
BelowMin(q) == q = << >> \/ Len(q) < 2

\* a cleanup that forgets the request without aborting it
ForgetPrevious(reqs, queryFollows) ==
    { IF r.cleanup THEN [r EXCEPT !.cleanup = FALSE] ELSE r : r \in reqs }

\* the cleanup of the previous run of an effect: controller.abort() of the
\* request that run started.  superseded records whether a query follows.
AbortPrevious(reqs, queryFollows) ==
    { IF r.cleanup
      THEN [r EXCEPT !.aborted = TRUE, !.cleanup = FALSE, !.superseded = queryFollows]
      ELSE r : r \in reqs }

\* the district fetch effect with a clear branch that leaves the school
\* selection alone
DistrictEffectKeepsSchool(s) ==
    LET q == Trim(s.debouncedDistrictQuery)
        cleaned == AbortPrevious(s.districtReqs, ~BelowMin(q))
    IN  IF BelowMin(q)
        THEN [s EXCEPT !.districtReqs = cleaned, !.districts = << >>,
                       !.selectedDistrict = Null]
        ELSE IF q \in DOMAIN s.districtCache
        THEN [s EXCEPT !.districtReqs = cleaned, !.districts = s.districtCache[q]]
        ELSE [s EXCEPT !.districtReqs = cleaned \cup
                           {[q |-> q, dq |-> s.debouncedDistrictQuery, aborted |-> FALSE,
                             superseded |-> FALSE, cleanup |-> TRUE]},
                       !.loadingDistricts = TRUE]

\* the district fetch effect, Home.tsx:60-91, after the cleanup of its previous run
DistrictEffect(s) ==
    LET q == Trim(s.debouncedDistrictQuery)
        cleaned == AbortPrevious(s.districtReqs, ~BelowMin(q))
    IN  IF BelowMin(q)
        THEN [s EXCEPT !.districtReqs = cleaned, !.districts = << >>,
                       !.selectedDistrict = Null, !.selectedSchool = Null]
        ELSE IF q \in DOMAIN s.districtCache
        THEN [s EXCEPT !.districtReqs = cleaned, !.districts = s.districtCache[q]]
        ELSE [s EXCEPT !.districtReqs = cleaned \cup
                           {[q |-> q, dq |-> s.debouncedDistrictQuery, aborted |-> FALSE,
                             superseded |-> FALSE, cleanup |-> TRUE]},
                       !.loadingDistricts = TRUE]

\* the school fetch effect without the cache lookup
SchoolEffectNoCache(s) ==
    LET q == Trim(s.debouncedSchoolQuery)
        clear == BelowMin(q) /\ s.selectedDistrict = Null
        cacheKey == CacheKey(LeaOf(s.selectedDistrict), q)
        cleaned == AbortPrevious(s.schoolReqs, ~clear)
    IN  IF clear
        THEN [s EXCEPT !.schoolReqs = cleaned, !.schools = << >>, !.selectedSchool = Null]
        ELSE [s EXCEPT !.schoolReqs = cleaned \cup
                           {[q |-> q, lea |-> LeaOf(s.selectedDistrict), key |-> cacheKey,
                             sel |-> s.selectedSchool, dq |-> s.debouncedSchoolQuery,
                             aborted |-> FALSE, superseded |-> FALSE, cleanup |-> TRUE]},
                       !.loadingSchools = TRUE]

\* the school fetch effect, Home.tsx:94-135, after the cleanup of its previous run
SchoolEffect(s) ==
    LET q == Trim(s.debouncedSchoolQuery)
        clear == BelowMin(q) /\ s.selectedDistrict = Null
        cacheKey == CacheKey(LeaOf(s.selectedDistrict), q)
        cleaned == AbortPrevious(s.schoolReqs, ~clear)
    IN  IF clear
        THEN [s EXCEPT !.schoolReqs = cleaned, !.schools = << >>, !.selectedSchool = Null]
        ELSE IF cacheKey \in DOMAIN s.schoolCache
        THEN [s EXCEPT !.schoolReqs = cleaned, !.schools = s.schoolCache[cacheKey]]
        ELSE [s EXCEPT !.schoolReqs = cleaned \cup
                           {[q |-> q, lea |-> LeaOf(s.selectedDistrict), key |-> cacheKey,
                             sel |-> s.selectedSchool, dq |-> s.debouncedSchoolQuery,
                             aborted |-> FALSE, superseded |-> FALSE, cleanup |-> TRUE]},
                       !.loadingSchools = TRUE]

\* the dependency lists of the two effects, Home.tsx:91 and :135
DistrictDeps(s) == <<s.debouncedDistrictQuery>>

\* a dependency list of the school effect that also holds the district text
SchoolDepsWithDistrictText(s) ==
    <<s.debouncedSchoolQuery, LeaOf(s.selectedDistrict), s.selectedSchool,
      s.debouncedDistrictQuery>>

SchoolDeps(s) == <<s.debouncedSchoolQuery, LeaOf(s.selectedDistrict), s.selectedSchool>>

\* the renders that follow a state change: an effect runs when its
\* dependencies differ from those of the previous render, and the state it
\* sets is rendered in turn
AfterDistrictEffect(pre, s) ==
    IF s.mounted /\ DistrictDeps(pre) # DistrictDeps(s) THEN DistrictEffect(s) ELSE s

AfterSchoolEffect(pre, s) ==
    IF s.mounted /\ SchoolDeps(pre) # SchoolDeps(s) THEN SchoolEffect(s) ELSE s

Render(pre, s) ==
    LET s1 == AfterDistrictEffect(pre, s)
        s2 == AfterSchoolEffect(pre, s1)
    IN  AfterSchoolEffect(s1, s2)

\* what a step did, for the properties: the operation, the request that
\* completed with its result and log lines, which effects ran, whether the
\* key an effect looked up was in the cache when it ran (sHad, dHad) and
\* before the step (sWas), whether both sources answered the request with
\* success (ok), and whether a keystroke found a timeout pending (restart)
NoReq == [none |-> TRUE]

NoAns == << >>

Observe(op, req, ans, out, pre, s) ==
    LET s1 == AfterDistrictEffect(pre, s)
        dRan == s1 # s \/ (s.mounted /\ DistrictDeps(pre) # DistrictDeps(s))
        sRan == s.mounted /\ SchoolDeps(pre) # SchoolDeps(s1)
        dq == Trim(s.debouncedDistrictQuery)
        sq == Trim(s1.debouncedSchoolQuery)
        sLookup == ~(BelowMin(sq) /\ s1.selectedDistrict = Null)
        sKey == CacheKey(LeaOf(s1.selectedDistrict), sq)
    IN  [ op |-> op, req |-> req, res |-> out.result, logs |-> out.logs,
          dRan |-> dRan,
          dQuery |-> dRan /\ ~BelowMin(dq),
          dHad |-> dRan /\ ~BelowMin(dq) /\ dq \in DOMAIN s.districtCache,
          sRan |-> sRan,
          sQuery |-> sRan /\ sLookup,
          sHad |-> sRan /\ sLookup /\ sKey \in DOMAIN s1.schoolCache,
          sWas |-> sRan /\ sLookup /\ sKey \in DOMAIN pre.schoolCache,
          sKey |-> sKey,
          ok |-> ans # NoAns /\ ans[1].kind = "ok" /\ ans[2].kind = "ok",
          restart |-> \/ (pre.districtTimer # {} /\ s.districtTimer # pre.districtTimer
                           /\ s.districtTimer # {})
                      \/ (pre.schoolTimer # {} /\ s.schoolTimer # pre.schoolTimer
                           /\ s.schoolTimer # {}) ]

NoOut == [result |-> << >>, raised |-> FALSE, requests |-> << >>, logs |-> << >>]

Commit(s, e) ==
    /\ districtQuery' = s.districtQuery
    /\ schoolQuery' = s.schoolQuery
    /\ debouncedDistrictQuery' = s.debouncedDistrictQuery
    /\ debouncedSchoolQuery' = s.debouncedSchoolQuery
    /\ districtTimer' = s.districtTimer
    /\ schoolTimer' = s.schoolTimer
    /\ districts' = s.districts
    /\ schools' = s.schools
    /\ selectedDistrict' = s.selectedDistrict
    /\ selectedSchool' = s.selectedSchool
    /\ loadingDistricts' = s.loadingDistricts
    /\ loadingSchools' = s.loadingSchools
    /\ districtCache' = s.districtCache
    /\ schoolCache' = s.schoolCache
    /\ districtReqs' = s.districtReqs
    /\ schoolReqs' = s.schoolReqs
    /\ mounted' = s.mounted
    /\ handled < MaxEvents
    /\ handled' = handled + 1
    /\ ev' = e
    /\ UNCHANGED call

\* a user event or a timer: the state the handler sets, then the renders
Handle(op, s) == Commit(Render(Session, s), Observe(op, NoReq, NoAns, NoOut, Session, s))

\* an aborted request settles in the microtasks that follow the abort, before
\* any other event is handled
Settled == \A r \in districtReqs \cup schoolReqs : ~r.aborted

-----------------------------------------------------------------------------
(* Controller: operations *)

\* the debounce effect without its cleanup: the timeout of the previous
\* value stays pending
ArmTimerNoClear(timers, value) == timers \cup {value}

\* the debounce effect of Home.tsx:27-30 when value changes: the cleanup of
\* its previous run clears the pending timeout, then a timeout holding the
\* new value is set
ArmTimer(timers, value) == {value}

\* the state after mount: both effects ran with empty text, both debounce
\* timers are armed
Init ==
    /\ call = IdleCall
    /\ districtQuery = << >> /\ schoolQuery = << >>
    /\ debouncedDistrictQuery = << >> /\ debouncedSchoolQuery = << >>
    /\ districtTimer = ArmTimer({}, << >>) /\ schoolTimer = ArmTimer({}, << >>)
    /\ districts = << >> /\ schools = << >>
    /\ selectedDistrict = Null /\ selectedSchool = Null
    /\ loadingDistricts = FALSE /\ loadingSchools = FALSE
    /\ districtCache = << >> /\ schoolCache = << >>
    /\ districtReqs = {} /\ schoolReqs = {}
    /\ mounted = TRUE
    /\ handled = 0
    /\ ev = Observe("mount", NoReq, NoAns, NoOut, Session, Session)

\* onChange of the district input, Home.tsx:192-194, and the debounce effect
\* it re-runs, Home.tsx:27-30
TypeDistrict ==
    \E v \in DistrictTexts \ {districtQuery} :
        /\ mounted /\ Settled
        /\ Handle("typeDistrict",
                  [Session EXCEPT !.districtQuery = v,
                                  !.districtTimer = ArmTimer(@, v)])

\* onChange of the school input, Home.tsx:228-231
TypeSchool ==
    \E v \in SchoolTexts \ {schoolQuery} :
        /\ mounted /\ Settled
        /\ Handle("typeSchool",
                  [Session EXCEPT !.schoolQuery = v, !.schoolTimer = ArmTimer(@, v),
                                  !.selectedSchool = Null])

\* a timeout of useDebounce(districtQuery, 700) fires: setDebounced(value)
\* with the value the timeout holds, Home.tsx:28
FireDistrict ==
    \E value \in districtTimer :
        /\ mounted /\ Settled
        /\ Handle("fireDistrict",
                  [Session EXCEPT !.districtTimer = @ \ {value},
                                  !.debouncedDistrictQuery = value])

\* a timeout of useDebounce(schoolQuery, 700) fires, Home.tsx:28
FireSchool ==
    \E value \in schoolTimer :
        /\ mounted /\ Settled
        /\ Handle("fireSchool",
                  [Session EXCEPT !.schoolTimer = @ \ {value},
                                  !.debouncedSchoolQuery = value])

\* the option the district select shows, Home.tsx:201
ShownDistrict ==
    IF \E i \in 1..Len(districts) : districts[i].LEAID = LeaOf(selectedDistrict)
    THEN LeaOf(selectedDistrict) ELSE ""

\* districts.find((d) => d.LEAID === leaId) || null
FindDistrict(list, leaId) ==
    IF \E i \in 1..Len(list) : list[i].LEAID = leaId
    THEN list[CHOOSE i \in 1..Len(list) :
                  list[i].LEAID = leaId /\ \A j \in 1..(i - 1) : list[j].LEAID # leaId]
    ELSE Null

\* handleDistrictChange without the eviction of the new key
handleDistrictChangeNoEvict(s, leaId) ==
    [s EXCEPT !.selectedDistrict = IF leaId = "" THEN Null ELSE FindDistrict(s.districts, leaId),
              !.selectedSchool = Null]

\* handleDistrictChange, Home.tsx:138-156
handleDistrictChange(s, leaId) ==
    [s EXCEPT !.selectedDistrict = IF leaId = "" THEN Null ELSE FindDistrict(s.districts, leaId),
              !.selectedSchool = Null,
              !.schoolCache = Delete(@, CacheKey(leaId, Trim(s.debouncedSchoolQuery)))]

ChangeDistrict ==
    \E leaId \in {""} \cup {districts[i].LEAID : i \in 1..Len(districts)} :
        /\ mounted /\ Settled
        /\ Len(districts) > 0
        /\ leaId # ShownDistrict
        /\ Handle("changeDistrict", handleDistrictChange(Session, leaId))

\* onClick of a row of the school list, Home.tsx:280; the list is not
\* rendered while loadingSchools, Home.tsx:249
SelectSchool ==
    \E i \in 1..Len(schools) :
        /\ mounted /\ Settled /\ ~loadingSchools
        /\ schools[i] # selectedSchool
        /\ Handle("selectSchool", [Session EXCEPT !.selectedSchool = schools[i]])

\* the .then and .finally callbacks of the district request, Home.tsx:79-88
DistrictThen(s, r, out) ==
    [s EXCEPT !.districtReqs = @ \ {r},
              !.districts = IF s.mounted /\ ~out.raised THEN out.result ELSE @,
              !.districtCache = IF out.raised THEN @ ELSE Put(@, r.q, out.result),
              !.loadingDistricts = IF s.mounted THEN FALSE ELSE @]

\* res.find(s => s.NCESSCH === selectedSchool.NCESSCH ||
\*               (s.NAME === selectedSchool.NAME && s.CITY === selectedSchool.CITY))
StillExists(res, sel) ==
    \E i \in 1..Len(res) :
        \/ res[i].NCESSCH = sel.NCESSCH
        \/ (res[i].NAME = sel.NAME /\ res[i].CITY = sel.CITY)

\* the .then and .finally callbacks of the school request, Home.tsx:113-132
SchoolThen(s, r, out) ==
    [s EXCEPT !.schoolReqs = @ \ {r},
              !.schools = IF s.mounted /\ ~out.raised THEN out.result ELSE @,
              !.schoolCache = IF out.raised THEN @ ELSE Put(@, r.key, out.result),
              !.selectedSchool =
                  IF s.mounted /\ ~out.raised /\ r.sel # Null /\ ~StillExists(out.result, r.sel)
                  THEN Null ELSE @,
              !.loadingSchools = IF s.mounted THEN FALSE ELSE @]

\* the promise of searchSchoolDistricts settles, Home.tsx:78-88
CompleteDistrict ==
    \E r \in districtReqs :
    \E ans \in IF r.aborted THEN AbortedPairs ELSE DistrictAnswers :
        /\ r.aborted \/ Settled
        /\ LET out == searchSchoolDistricts(r.q, ans[1], ans[2])
               s == DistrictThen(Session, r, out)
           IN  Commit(Render(Session, s),
                      Observe("completeDistrict", r, ans, out, Session, s))

\* the promise of searchSchools settles, Home.tsx:112-132
CompleteSchool ==
    \E r \in schoolReqs :
    \E ans \in IF r.aborted THEN AbortedPairs ELSE SchoolAnswers :
        /\ r.aborted \/ Settled
        /\ LET out == searchSchools(r.q, r.lea, ans[1], ans[2])
               s == SchoolThen(Session, r, out)
           IN  Commit(Render(Session, s),
                      Observe("completeSchool", r, ans, out, Session, s))

\* unmount: the cleanups of all effects run, Home.tsx:29, :90, :134
Unmount ==
    /\ mounted /\ Settled
    /\ Commit([Session EXCEPT !.mounted = FALSE,
                              !.districtTimer = {}, !.schoolTimer = {},
                              !.districtReqs = AbortPrevious(@, FALSE),
                              !.schoolReqs = AbortPrevious(@, FALSE)],
              Observe("unmount", NoReq, NoAns, NoOut, Session, [Session EXCEPT !.mounted = FALSE]))

Next ==
    \/ TypeDistrict
    \/ TypeSchool
    \/ FireDistrict
    \/ FireSchool
    \/ ChangeDistrict
    \/ SelectSchool
    \/ CompleteDistrict
    \/ CompleteSchool
    \/ Unmount

Spec == Init /\ [][Next]_vars

-----------------------------------------------------------------------------
(* Executor: one call of a search function on inputs from bounded sets *)

CallSearchSchools ==
    \E name \in ExecNames, lea \in ExecLeas :
    \E priv \in Answers(PrivateFeatures), pub \in Answers(PublicFeatures) :
        /\ call = IdleCall
        /\ ValidPair(priv, pub)
        /\ call' = [fn |-> "searchSchools", name |-> name, lea |-> lea,
                    priv |-> priv, pub |-> pub,
                    out |-> searchSchools(name, lea, priv, pub)]
        /\ UNCHANGED ctlVars

CallSearchDistricts ==
    \E name \in ExecNames :
    \E priv \in Answers(PrivateFeatures), pub \in Answers(PublicFeatures) :
        /\ call = IdleCall
        /\ ValidPair(priv, pub)
        /\ call' = [fn |-> "searchSchoolDistricts", name |-> name, lea |-> Undef,
                    priv |-> priv, pub |-> pub,
                    out |-> searchSchoolDistricts(name, priv, pub)]
        /\ UNCHANGED ctlVars

ExecNext == CallSearchSchools \/ CallSearchDistricts

SpecExec == Init /\ [][ExecNext]_vars

-----------------------------------------------------------------------------
(* Properties of the controller, checked under Spec *)

Completes == {"completeDistrict", "completeSchool"}

\* the requests of a field that were not cancelled
InFlight(reqs) == {r \in reqs : ~r.aborted}

\* C1: once a later query of a field has been issued, the field's visible
\* list is never set from the outcome of the earlier query.
C1_OnlyLatestQueryVisible ==
    [][ /\ (ev'.op = "completeDistrict" /\ ev'.req.superseded) => districts' = districts
        /\ (ev'.op = "completeSchool" /\ ev'.req.superseded) => schools' = schools ]_vars

\* C2: the completion callback of a request whose cancellation was requested
\* changes neither the visible lists, nor a cache, nor the school selection.
C2_CancelledCompletionChangesNothing ==
    [][ (ev'.op \in Completes /\ ev'.req.aborted) =>
            /\ districts' = districts
            /\ schools' = schools
            /\ districtCache' = districtCache
            /\ schoolCache' = schoolCache
            /\ selectedSchool' = selectedSchool ]_vars

\* C3: per field at most one request that was not cancelled is in flight; a
\* request that starts finds every other request of its field cancelled.
C3_AtMostOneInFlight ==
    /\ Cardinality(InFlight(districtReqs)) <= 1
    /\ Cardinality(InFlight(schoolReqs)) <= 1

\* a school request was started while the previous one was outstanding
C3_Witness ==
    \E r1, r2 \in schoolReqs : r1.aborted /\ r1.superseded /\ ~r2.aborted

\* C4: when the pipeline of a field runs for a key that is in the cache, the
\* cached list becomes the visible list and no request is started.
C4_CacheHitServesCachedList ==
    [][ /\ ev'.dHad =>
               /\ districts' = districtCache'[Trim(debouncedDistrictQuery')]
               /\ InFlight(districtReqs') \subseteq districtReqs
        /\ ev'.sHad =>
               /\ schools' = schoolCache'[ev'.sKey]
               /\ InFlight(schoolReqs') \subseteq schoolReqs ]_vars

\* the school pipeline ran on a debounced text and served a non-empty cached list
C4_Witness ==
    ev.op = "fireSchool" /\ ev.sHad /\ schools # << >> /\ schools = schoolCache[ev.sKey]

\* C5: a change of the selected district sets the school selection to none,
\* and the school query that follows for the (new district, debounced text)
\* key goes to the network, also when the key was cached before the change.
C5_DistrictChangeBypassesCache ==
    [][ ev'.op = "changeDistrict" =>
            /\ selectedSchool' = Null
            /\ ev'.sRan
            /\ ev'.sQuery =>
                   /\ ev'.sKey = CacheKey(LeaOf(selectedDistrict'), Trim(debouncedSchoolQuery'))
                   /\ \E r \in InFlight(schoolReqs') \ schoolReqs : r.key = ev'.sKey ]_vars

\* a district was chosen whose key was in the cache before the change, and
\* the request for that key is in flight
C5_Witness ==
    /\ ev.op = "changeDistrict" /\ ev.sQuery /\ ev.sWas
    /\ \E r \in InFlight(schoolReqs) : r.key = ev.sKey

\* the match the claim describes: by identifier, or by name and city when the
\* selected school has no identifier
MatchesAsClaimed(res, sel) ==
    \E i \in 1..Len(res) :
        IF Truthy(sel.NCESSCH)
        THEN res[i].NCESSCH = sel.NCESSCH
        ELSE res[i].NAME = sel.NAME /\ res[i].CITY = sel.CITY

\* C6: when a school request (one that was not cancelled) completes while a
\* school is selected, the selection is kept iff the result has a school with
\* the same identifier or, the selected school having no identifier, with the
\* same name and city; otherwise it is cleared.
C6_SelectionKeptIffStillListed ==
    [][ (ev'.op = "completeSchool" /\ ~ev'.req.aborted /\ selectedSchool # Null) =>
            selectedSchool' = IF MatchesAsClaimed(ev'.res, selectedSchool)
                              THEN selectedSchool ELSE Null ]_vars

\* C11: the completion of a request that was cancelled writes no error log
\* line, in the executor or in the controller, for either field.
C11_CancellationNeverLogged ==
    (ev.op \in Completes /\ ev.req.aborted) => ev.logs = << >>

C13_ShortDistrictTextClears ==
    [][ (ev'.dRan /\ BelowMin(Trim(debouncedDistrictQuery'))) =>
            /\ districts' = << >>
            /\ selectedDistrict' = Null
            /\ selectedSchool' = Null
            /\ InFlight(districtReqs') = {} ]_vars

\* the district text was cleared while a district was selected and its
\* school request was in flight
C13_Witness ==
    /\ ev.op = "fireDistrict" /\ ev.dRan /\ BelowMin(Trim(debouncedDistrictQuery))
    /\ \E r \in schoolReqs : r.aborted /\ Truthy(r.lea)
    /\ districts = << >> /\ selectedDistrict = Null /\ selectedSchool = Null

\* C14: when the school pipeline runs, it serves the cached list of the
\* (district, trimmed debounced text) key or starts a request for that key
\* exactly when the trimmed debounced school text has 2 characters or more or
\* a district is selected; otherwise no school request is in flight
\* afterwards, the school list is empty and the school selection is none.
C14_SchoolQueriedIffTextOrDistrict ==
    [][ ev'.sRan =>
            LET q == Trim(debouncedSchoolQuery')
                lea == LeaOf(selectedDistrict')
                key == CacheKey(lea, q)
            IN  IF Len(q) >= 2 \/ selectedDistrict' # Null
                THEN \/ \E r \in InFlight(schoolReqs') \ schoolReqs :
                            r.key = key /\ r.q = q /\ r.lea = lea
                     \/ /\ key \in DOMAIN schoolCache'
                        /\ schools' = schoolCache'[key]
                        /\ InFlight(schoolReqs') = {}
                ELSE /\ InFlight(schoolReqs') = {}
                     /\ schools' = << >>
                     /\ selectedSchool' = Null ]_vars

\* the school pipeline ran with empty text and a selected district, and the
\* request for all schools of the district is in flight
C14_Witness ==
    /\ ev.sRan /\ debouncedSchoolQuery = << >> /\ selectedDistrict # Null
    /\ \E r \in InFlight(schoolReqs) : r.q = << >> /\ r.lea = selectedDistrict.LEAID

\* a request of the field that was in flight before the step is cancelled
\* after it
CancelledIn(before, after) ==
    \E r \in InFlight(before), follows \in BOOLEAN :
        [r EXCEPT !.aborted = TRUE, !.cleanup = FALSE, !.superseded = follows] \in after

\* the district text was cleared below the minimum length while a district
\* or a school was selected
ClearsSelection ==
    /\ ev'.dRan /\ BelowMin(Trim(debouncedDistrictQuery'))
    /\ selectedDistrict # Null \/ selectedSchool # Null

\* C15 as stated: while the page is mounted, a step that cancels the
\* in-flight request of one field leaves the requests of the other field
\* unchanged.
C15_IndependentCancellation ==
    [][ mounted' =>
            /\ CancelledIn(districtReqs, districtReqs') => schoolReqs' = schoolReqs
            /\ CancelledIn(schoolReqs, schoolReqs') => districtReqs' = districtReqs ]_vars

\* C15 amended: while the page is mounted, a step that cancels the in-flight
\* request of one field leaves the requests of the other field unchanged,
\* unless the step clears the district text below the minimum length while a
\* district or a school is selected: that step resets the selections, the
\* school pipeline runs again and no school request that was in flight stays
\* in flight.
C15_IndependentUnlessSelectionReset ==
    [][ mounted' =>
            IF ClearsSelection
            THEN ev'.sRan /\ InFlight(schoolReqs) \cap schoolReqs' = {}
            ELSE /\ CancelledIn(districtReqs, districtReqs') => schoolReqs' = schoolReqs
                 /\ CancelledIn(schoolReqs, schoolReqs') => districtReqs' = districtReqs ]_vars

\* a district request was superseded by a new debounced text while a school
\* request was in flight, and the school request is still in flight
C15_Witness ==
    /\ ev.op = "fireDistrict" /\ ev.dQuery
    /\ \E r \in districtReqs : r.aborted /\ r.superseded
    /\ InFlight(schoolReqs) # {}

\* C19 as stated: after a change of the selected district from one district
\* to another, the school cache has no entry for the (old district, debounced
\* text) key.
C19_OldKeyInvalidated ==
    [][ (ev'.op = "changeDistrict" /\ selectedDistrict # Null /\ selectedDistrict' # Null) =>
            CacheKey(LeaOf(selectedDistrict), Trim(debouncedSchoolQuery))
                \notin DOMAIN schoolCache' ]_vars

\* C19 amended: after a change of the selected district the school cache has
\* no entry for the (new district, debounced text) key, and every other
\* entry, the one of the old district included, is kept as it was.
C19_NewKeyInvalidated ==
    [][ ev'.op = "changeDistrict" =>
            LET newKey == CacheKey(LeaOf(selectedDistrict'), Trim(debouncedSchoolQuery))
            IN  /\ newKey \notin DOMAIN schoolCache'
                /\ \A k \in DOMAIN schoolCache \ {newKey} :
                       k \in DOMAIN schoolCache' /\ schoolCache'[k] = schoolCache[k] ]_vars

\* a district was chosen whose key was cached: its entry is gone and the
\* entry of another district for the same text is still there
C19_Witness ==
    /\ ev.op = "changeDistrict" /\ ev.sWas /\ selectedDistrict # Null
    /\ CacheKey(selectedDistrict.LEAID, Trim(debouncedSchoolQuery)) \notin DOMAIN schoolCache
    /\ \E k \in DOMAIN schoolCache :
           k[2] = Trim(debouncedSchoolQuery) /\ k[1] \notin {"all", selectedDistrict.LEAID}

\* the keys whose cache entry a step adds or changes
Written(before, after) ==
    {k \in DOMAIN after : k \notin DOMAIN before \/ after[k] # before[k]}

\* C20: a step adds or changes a cache entry only as the completion of a
\* request for that key that was not cancelled and whose two sources both
\* answered successfully.
C20_OnlyCleanResultsCached ==
    [][ /\ \A k \in Written(districtCache, districtCache') :
               /\ ev'.op = "completeDistrict" /\ ev'.req.q = k
               /\ ~ev'.req.aborted /\ ev'.ok
        /\ \A k \in Written(schoolCache, schoolCache') :
               /\ ev'.op = "completeSchool" /\ ev'.req.key = k
               /\ ~ev'.req.aborted /\ ev'.ok ]_vars

\* C21: the selected school is none or matches an entry of the visible
\* school list, by identifier or by name and city (the match of the
\* controller's own check).
C21_SelectionIsListed ==
    selectedSchool = Null \/ StillExists(schools, selectedSchool)

\* C22: while the page is mounted and no cancelled request is still settling,
\* the loading flag of a field is true exactly when a request of the field
\* that was not cancelled is in flight.
C22_LoadingIffInFlight ==
    (mounted /\ Settled) =>
        /\ loadingDistricts <=> InFlight(districtReqs) # {}
        /\ loadingSchools <=> InFlight(schoolReqs) # {}

-----------------------------------------------------------------------------
(* Properties of the executor, checked under SpecExec *)

SameNCS(a, b) == a.NAME = b.NAME /\ a.CITY = b.CITY /\ a["STATE"] = b["STATE"]

\* the identifier a raw feature normalizes to
IdOf(f) == normalizeSchoolAttributes(FeatureAttrs(f)).NCESSCH

\* the positions of the result that carry identifier id
WithId(res, id) == {i \in 1..Len(res) : res[i].NCESSCH = id}

\* the elements of a sequence
Range(t) == {t[i] : i \in 1..Len(t)}

\* C7: the list searchSchools returns has no two records with the same
\* non-empty identifier and no two records without identifier that agree on
\* name, city and state; an identifier both sources return yields one record.
C7_NoDuplicateSchools ==
    call.fn = "searchSchools" =>
        LET res == call.out.result IN
        /\ \A i, j \in 1..Len(res) :
               i < j =>
                   /\ ~(Truthy(res[i].NCESSCH) /\ res[i].NCESSCH = res[j].NCESSCH)
                   /\ ~(~Truthy(res[i].NCESSCH) /\ ~Truthy(res[j].NCESSCH)
                        /\ SameNCS(res[i], res[j]))
        /\ (call.priv.kind = "ok" /\ call.pub.kind = "ok") =>
               \A f \in Range(call.priv.features), g \in Range(call.pub.features) :
                   (Truthy(IdOf(f)) /\ IdOf(f) = IdOf(g)) =>
                       Cardinality(WithId(res, IdOf(f))) = 1

\* both sources returned identifier 111, under different OBJECTIDs and field
\* names, and the result has it once
C7_Witness ==
    /\ call.fn = "searchSchools"
    /\ call.priv = Answer("ok", <<PF1, PF3>>) /\ call.pub = Answer("ok", <<QF1>>)
    /\ Cardinality(WithId(call.out.result, "111")) = 1
    /\ Len(call.out.result) = 2

ShortUnfiltered ==
    call.fn = "searchSchools" /\ Len(Trim(call.name)) < 2 /\ ~Truthy(call.lea)

\* C8 as stated: searchSchools with trimmed text shorter than 2 and no
\* district filter returns an empty list without a network request.
C8_ShortSchoolQueryNoRequest ==
    ShortUnfiltered => (call.out.result = << >> /\ call.out.requests = << >>)

\* C8 amended: searchSchools with trimmed text shorter than 2 and no district
\* filter sends one request to each source, with the match-all condition and
\* no district condition, and returns the deduplicated merge of the answers:
\* with both sources answering, it is empty only if neither has a feature.
C8_ShortSchoolQueryRequestsAll ==
    ShortUnfiltered =>
        /\ Len(call.out.requests) = 2
        /\ {r.src : r \in Range(call.out.requests)} = {"private", "public"}
        /\ \A r \in Range(call.out.requests) : r.where.name = AllClause /\ r.where.lea = ""
        /\ (call.priv.kind = "ok" /\ call.pub.kind = "ok") =>
               (call.out.result = << >> <=>
                    (call.priv.features = << >> /\ call.pub.features = << >>))

\* a one-character text without district filter that returned schools
C8_Witness ==
    /\ ShortUnfiltered /\ call.name = <<"a", " ">>
    /\ Len(call.out.requests) = 2 /\ Len(call.out.result) = 2

\* C9: searchSchoolDistricts with trimmed text shorter than 2 returns an
\* empty list and sends no request to either source.
C9_ShortDistrictQueryNoRequest ==
    (call.fn = "searchSchoolDistricts" /\ Len(Trim(call.name)) < 2) =>
        (call.out.result = << >> /\ call.out.requests = << >>)

\* a one-character text (two before trimming) although the sources have districts
C9_Witness ==
    /\ call.fn = "searchSchoolDistricts" /\ call.name = <<"a", " ">>
    /\ call.priv = Answer("ok", <<PF1>>) /\ call.pub = Answer("ok", <<QF2>>)
    /\ call.out.result = << >> /\ call.out.requests = << >>

\* a source failed: network error or non-success response
Failed(ans) == ans.kind \in {"neterr", "nonok"}

\* the call of the state, with other answers
Rerun(priv, pub) ==
    IF call.fn = "searchSchools" THEN searchSchools(call.name, call.lea, priv, pub)
    ELSE searchSchoolDistricts(call.name, priv, pub)

\* C10: when one source fails and the other succeeds, the call completes
\* normally with the list it returns when the failed source answers zero
\* features; when both fail it returns an empty list and does not raise.
C10_PartialFailureTolerated ==
    call.fn # "none" =>
        /\ (Failed(call.priv) /\ call.pub.kind = "ok") =>
               /\ ~call.out.raised
               /\ call.out.result = Rerun(ZeroFeatures, call.pub).result
        /\ (call.priv.kind = "ok" /\ Failed(call.pub)) =>
               /\ ~call.out.raised
               /\ call.out.result = Rerun(call.priv, ZeroFeatures).result
        /\ (Failed(call.priv) /\ Failed(call.pub)) =>
               (~call.out.raised /\ call.out.result = << >>)

\* the private source failed with a network error and the schools of the
\* public source were returned
C10_Witness ==
    /\ call.fn = "searchSchools" /\ call.priv.kind = "neterr"
    /\ call.pub = Answer("ok", <<QF1, QF2>>)
    /\ Len(call.out.result) = 2 /\ ~call.out.raised

\* the duplicate test the claim describes
DuplicateAsClaimed(a, b) ==
    IF Truthy(a.NCESSCH) /\ Truthy(b.NCESSCH)
    THEN a.NCESSCH = b.NCESSCH
    ELSE SameNCS(a, b)

\* the records that have no earlier duplicate, in first-seen order
RECURSIVE FirstOfEachAsClaimed(_, _)
FirstOfEachAsClaimed(self, index) ==
    IF index > Len(self) THEN << >>
    ELSE (IF \E j \in 1..(index - 1) : DuplicateAsClaimed(self[j], self[index])
          THEN << >> ELSE <<self[index]>>)
         \o FirstOfEachAsClaimed(self, index + 1)

\* C16: when both sources answer, searchSchools returns the merged records
\* (private before public) in first-seen order without those that have an
\* earlier duplicate, two records being duplicates iff they share a non-empty
\* identifier or, one of them lacking an identifier, agree on name, city and
\* state, whichever of the two comes first.
C16_DedupAsClaimed ==
    (call.fn = "searchSchools" /\ call.priv.kind = "ok" /\ call.pub.kind = "ok") =>
        call.out.result =
            FirstOfEachAsClaimed(NormalizeAll(call.priv.features \o call.pub.features), 1)

\* the district identifier a raw feature normalizes to
DistrictIdOf(f) == normalizeDistrictAttributes(FeatureAttrs(f)).LEAID

\* both sources answered a district search that was not cut short
DistrictsAnswered ==
    /\ call.fn = "searchSchoolDistricts" /\ Len(Trim(call.name)) >= 2
    /\ call.priv.kind = "ok" /\ call.pub.kind = "ok"

\* C17: when both sources answer, searchSchoolDistricts returns one record
\* for each district identifier that occurs in the merged features (private
\* before public) and no other record, the record of an identifier is the
\* normalization of the first feature that carries it, and the records are in
\* ascending order of name.
C17_OneDistrictPerIdSorted ==
    DistrictsAnswered =>
        LET merged == call.priv.features \o call.pub.features
            res == call.out.result
            ids == {DistrictIdOf(merged[i]) : i \in 1..Len(merged)} \ {""}
            First(id) == CHOOSE i \in 1..Len(merged) :
                             /\ DistrictIdOf(merged[i]) = id
                             /\ \A j \in 1..(i - 1) : DistrictIdOf(merged[j]) # id
        IN  /\ Len(res) = Cardinality(ids)
            /\ \A id \in ids :
                   \E i \in 1..Len(res) :
                       res[i] = normalizeDistrictAttributes(FeatureAttrs(merged[First(id)]))
            /\ \A i, j \in 1..Len(res) :
                   i < j => NameRank(res[i].NAME) <= NameRank(res[j].NAME)

\* district L1 came from both sources and L2 from the private one: two
\* records, L1 named by its private feature (not "Ogden"), "Alpine" first
C17_Witness ==
    /\ DistrictsAnswered
    /\ call.priv = Answer("ok", <<PF1, PF2>>) /\ call.pub = Answer("ok", <<QF1>>)
    /\ Len(call.out.result) = 2
    /\ call.out.result[1].NAME = "Alpine" /\ call.out.result[1].LEAID = "L2"
    /\ call.out.result[2].NAME = "District L1" /\ call.out.result[2].LEAID = "L1"

\* the raw record has none of the source name fields
NoNameField(a) ==
    ~Truthy(Get(a, "DISTRICT")) /\ ~Truthy(Get(a, "LEA_NAME")) /\ ~Truthy(Get(a, "LEANM"))

\* C18: the district record built from a feature without a source name field
\* is named by the synthesized label of the identifier its LEAID field holds,
\* whichever identifier field of the feature supplied it.  (The label is
\* "District " followed by one value, so it contains the identifier when that
\* value is the identifier.)
C18_SynthesizedNameHasId ==
    DistrictsAnswered =>
        \A f \in Range(call.priv.features \o call.pub.features) :
            LET d == normalizeDistrictAttributes(FeatureAttrs(f)) IN
            (NoNameField(FeatureAttrs(f)) /\ d.LEAID # "") =>
                \A i \in 1..Len(call.out.result) :
                    call.out.result[i] = d => call.out.result[i].NAME = "District " \o d.LEAID

\* the duplicate relation of the claim: the same non-empty identifier, or the
\* same name, city and state
DuplicateOf(a, b) ==
    \/ Truthy(a.NCESSCH) /\ a.NCESSCH = b.NCESSCH
    \/ SameNCS(a, b)

\* C23: when both sources answer, every record of the merged input is a
\* duplicate (same non-empty identifier, or same name, city and state) of a
\* record of the list searchSchools returns.
C23_DedupLosesNoSchool ==
    (call.fn = "searchSchools" /\ call.priv.kind = "ok" /\ call.pub.kind = "ok") =>
        \A x \in Range(NormalizeAll(call.priv.features \o call.pub.features)) :
            \E y \in Range(call.out.result) : DuplicateOf(x, y)

====
